---- MODULE Spec2Model ----
(***************************************************************************)
(* bedrock-up: the update pipeline of src/src/updater.rs.                  *)
(*                                                                         *)
(* Strings are sequences of one-character strings, so that the resolver's  *)
(* comparisons and the file-name derivation of fetch_update_zip work on    *)
(* the characters.  JSON documents are tagged records, files are bodies,   *)
(* the target tree is a map from normalised absolute paths to nodes.       *)
(***************************************************************************)
EXTENDS Integers, Sequences, FiniteSets, TLC

(***************************************************************************)
(* Bounds                                                                  *)
(***************************************************************************)
MaxRuns == 3
\* runs of the specification with fairness
MaxLiveRuns == 1
\* concurrent update_cache calls on one cache path
NWriters == 2
\* concurrent runs of update() sharing the temp directory
NStagers == 2
\* longest links array of the documents the resolver is queried with
MaxLinks == 2
\* successive update_cache calls on one cache path
MaxWrites == 2
\* successive apply_update calls with one archive on one tree
MaxApplies == 2

(***************************************************************************)
(* Option values                                                           *)
(***************************************************************************)
None == [some |-> FALSE]
Some(x) == [some |-> TRUE, v |-> x]

(***************************************************************************)
(* args.rs: DownloadType and its Display rendering                         *)
(***************************************************************************)
DownloadType == {"Windows", "Linux", "PreviewWindows", "PreviewLinux", "ServerJar"}

\* a rendering derived from the platform only: the preview identities collide
to_string_without_preview(download_type) ==
    CASE download_type \in {"Windows", "PreviewWindows"} ->
           <<"s","e","r","v","e","r","B","e","d","r","o","c","k","W","i","n","d","o","w","s">>
      [] download_type \in {"Linux", "PreviewLinux"} ->
           <<"s","e","r","v","e","r","B","e","d","r","o","c","k","L","i","n","u","x">>
      [] download_type = "ServerJar" ->
           <<"s","e","r","v","e","r","J","a","r">>

to_string(download_type) ==
    CASE download_type = "Windows" ->
           <<"s","e","r","v","e","r","B","e","d","r","o","c","k","W","i","n","d","o","w","s">>
      [] download_type = "Linux" ->
           <<"s","e","r","v","e","r","B","e","d","r","o","c","k","L","i","n","u","x">>
      [] download_type = "PreviewWindows" ->
           <<"s","e","r","v","e","r","B","e","d","r","o","c","k","P","r","e","v","i","e","w","W","i","n","d","o","w","s">>
      [] download_type = "PreviewLinux" ->
           <<"s","e","r","v","e","r","B","e","d","r","o","c","k","P","r","e","v","i","e","w","L","i","n","u","x">>
      [] download_type = "ServerJar" ->
           <<"s","e","r","v","e","r","J","a","r">>

\* default_values of UpdateArgs::exclude, as relative paths (one component each)
DefaultExclude == {<<"server.properties">>, <<"permissions.json">>, <<"allowlist.json">>}

(***************************************************************************)
(* serde_json::Value                                                       *)
(***************************************************************************)
JNull == [t |-> "null"]
JStr(s) == [t |-> "str", s |-> s]
JNum(n) == [t |-> "num", n |-> n]
JArr(a) == [t |-> "arr", a |-> a]
JObj(o) == [t |-> "obj", o |-> o]

is_null_never(json) == FALSE

is_null(json) == json.t = "null"

\* Value::get with a string index: Some only on an object that has the key
Get(json, key) ==
    IF json.t = "obj" /\ key \in DOMAIN json.o THEN Some(json.o[key]) ELSE None

\* an object taken for the sequence of its values
as_array_or_values(json) ==
    IF json.t = "arr" THEN Some(json.a)
    ELSE IF json.t = "obj" /\ DOMAIN json.o # {}
    THEN Some(<<json.o[CHOOSE k \in DOMAIN json.o : TRUE]>>)
    ELSE None

as_array(json) == IF json.t = "arr" THEN Some(json.a) ELSE None

as_str(json) == IF json.t = "str" THEN Some(json.s) ELSE None

\* the closure with a comparison that ignores the case of the letters
LinkUrl_ignore_case(item, download_type) ==
    LET lower(c) == CASE c = "B" -> "b" [] c = "W" -> "w" [] c = "L" -> "l"
                      [] c = "P" -> "p" [] c = "J" -> "j" [] OTHER -> c
        lc(str) == [i \in 1..Len(str) |-> lower(str[i])]
        ty == Get(item, "downloadType") IN
    IF ty.some /\ as_str(ty.v).some /\ lc(as_str(ty.v).v) = lc(to_string(download_type))
    THEN IF Get(item, "downloadUrl").some
         THEN as_str(Get(item, "downloadUrl").v)
         ELSE None
    ELSE None

\* the closure handed to find_map: `?` inside it yields None for this item only
LinkUrl(item, download_type) ==
    IF Get(item, "downloadType") = Some(JStr(to_string(download_type)))
    THEN IF Get(item, "downloadUrl").some
         THEN as_str(Get(item, "downloadUrl").v)
         ELSE None
    ELSE None

\* the last item for which the closure returns Some
RECURSIVE find_map_last(_, _)
find_map_last(items, download_type) ==
    IF items = <<>> THEN None
    ELSE IF find_map_last(Tail(items), download_type).some
         THEN find_map_last(Tail(items), download_type)
         ELSE LinkUrl(Head(items), download_type)

\* Iterator::find_map: the first item for which the closure returns Some
RECURSIVE find_map(_, _)
find_map(items, download_type) ==
    IF items = <<>> THEN None
    ELSE IF LinkUrl(Head(items), download_type).some
         THEN LinkUrl(Head(items), download_type)
         ELSE find_map(Tail(items), download_type)

get_download_url_from_json(json, download_type) ==
    IF ~Get(json, "result").some THEN None
    ELSE IF ~Get(Get(json, "result").v, "links").some THEN None
    ELSE IF ~as_array(Get(Get(json, "result").v, "links").v).some THEN None
    ELSE find_map(as_array(Get(Get(json, "result").v, "links").v).v, download_type)

(***************************************************************************)
(* Documents, URLs and archives of the environment                         *)
(***************************************************************************)
DefaultToken == <<"0",".","0",".","0">>                 \* "0.0.0"
UrlW1 == <<"x","/","w","1",".","z","i","p">>             \* "x/w1.zip"
UrlW2 == <<"x","/","w","2",".","z","i","p">>             \* "x/w2.zip"
UrlL1 == <<"x","/","l","1",".","z","i","p">>             \* "x/l1.zip"
UrlD1 == <<"x","/","d","1",".","z","i","p">>             \* "x/d1.zip"

Link(download_type, url) ==
    JObj([k \in {"downloadType", "downloadUrl"} |->
            IF k = "downloadType" THEN JStr(to_string(download_type)) ELSE JStr(url)])

Manifest(links) == JObj([k \in {"result"} |-> JObj([j \in {"links"} |-> JArr(links)])])

ManifestA == Manifest(<<Link("Windows", UrlW1), Link("Linux", UrlL1)>>)
ManifestB == Manifest(<<Link("Windows", UrlW2), Link("Linux", UrlL1)>>)
\* a catalog whose only link carries the URL "0.0.0" and that offers nothing for Linux
ManifestC == Manifest(<<Link("Windows", DefaultToken)>>)

\* the documents the manifest endpoint may answer with (null is a valid JSON body)
RemoteDocs == {ManifestA, ManifestB, ManifestC, JNull}

\* the download identities a caller passes in the runs of the model
RunTypes == {"Windows", "Linux"}

(***************************************************************************)
(* Byte contents: of HTTP bodies and of files                              *)
(***************************************************************************)
JsonBody(doc) == [k |-> "json", doc |-> doc]      \* text that parses to doc
ZipBody(entries) == [k |-> "zip", entries |-> entries] \* a valid archive
Garbage == [k |-> "text"]                         \* neither JSON nor an archive
EmptyBody == [k |-> "empty"]                      \* zero bytes
NoFile == [k |-> "nofile"]
Unreadable == [k |-> "unreadable"]                \* a file that File::open is denied
Truncated(doc) == [k |-> "truncated", doc |-> doc] \* the text of doc cut short

\* serde_json::from_reader / Response::json
parse_json(body) == IF body.k = "json" THEN Some(body.doc) ELSE None

\* serde_json::to_writer
to_json(doc) == JsonBody(doc)

\* zip::ZipArchive::new
open_zip(body) == IF body.k = "zip" THEN Some(body.entries) ELSE None

(***************************************************************************)
(* Paths: sequences of components; "/" is the root component               *)
(***************************************************************************)
FileEntry(name, data) == [name |-> name, dir |-> FALSE, data |-> data]
DirEntry(name) == [name |-> name, dir |-> TRUE, data |-> ""]

\* ZipFile::enclosed_name: None for an absolute name or one that climbs
\* above its starting directory
RECURSIVE Depth(_, _)
Depth(name, d) ==
    IF name = <<>> THEN d
    ELSE IF d < 0 THEN d
    ELSE IF Head(name) = "/" THEN -1
    ELSE IF Head(name) = ".." THEN Depth(Tail(name), d - 1)
    ELSE IF Head(name) = "." THEN Depth(Tail(name), d)
    ELSE Depth(Tail(name), d + 1)

enclosed_name_unchecked(entry) == Some(entry.name)

enclosed_name(entry) == IF Depth(entry.name, 0) >= 0 THEN Some(entry.name) ELSE None

\* what the file system makes of a joined path: ".." climbs, "." stays
RECURSIVE Normalize(_, _)
Normalize(acc, rest) ==
    IF rest = <<>> THEN acc
    ELSE IF Head(rest) = "/" THEN Normalize(<<>>, Tail(rest))
    ELSE IF Head(rest) = ".." THEN
            Normalize(IF acc = <<>> THEN <<>> ELSE SubSeq(acc, 1, Len(acc) - 1), Tail(rest))
    ELSE IF Head(rest) = "." THEN Normalize(acc, Tail(rest))
    ELSE Normalize(Append(acc, Head(rest)), Tail(rest))

\* PathBuf::join: an absolute right-hand side replaces the base
join(base, rel) == Normalize(base, rel)

ServerPath == <<"srv">>

Archive1 == <<FileEntry(<<"server.properties">>, "p1"),
              FileEntry(<<"..", "evil">>, "e1"),
              FileEntry(<<"bin">>, "b1")>>
Archive2 == <<FileEntry(<<"/", "etc", "x">>, "e2"),
              FileEntry(<<"server.properties">>, "p2"),
              DirEntry(<<"worlds">>),
              FileEntry(<<"bin">>, "b2")>>
Archive3 == <<DirEntry(<<"bin">>),
              FileEntry(<<"bin", "srv">>, "l1")>>

\* an archive with two entries for one path, and a file whose directory has
\* no entry of its own
Archive4 == <<FileEntry(<<"server.properties">>, "p1"),
              FileEntry(<<"server.properties">>, "p2"),
              FileEntry(<<"bin">>, "b1"),
              FileEntry(<<"bin">>, "b2"),
              FileEntry(<<"worlds", "level.dat">>, "w1")>>

ArchiveAt(url) ==
    CASE url = UrlW1 -> Archive1
      [] url = UrlW2 -> Archive2
      [] url = UrlL1 -> Archive3
      [] url = UrlD1 -> Archive4
      [] OTHER -> <<>>

Urls == {UrlW1, UrlW2, UrlL1, UrlD1, DefaultToken}

(***************************************************************************)
(* The file system: the tree of directories and files                      *)
(***************************************************************************)
Absent == [k |-> "none"]
Dir == [k |-> "dir"]
File(data) == [k |-> "file", c |-> data]

Prefixes(p) == {SubSeq(p, 1, n) : n \in 1..Len(p)}

SeqRange(s) == {s[i] : i \in 1..Len(s)}

AllEntries == UNION {SeqRange(ArchiveAt(u)) : u \in Urls}

\* every path an archive entry can name, inside or outside the target directory
Paths == Prefixes(ServerPath) \cup
         UNION {Prefixes(join(ServerPath, e.name)) : e \in AllEntries}

InsideTarget(p) == Len(p) >= Len(ServerPath) /\ SubSeq(p, 1, Len(ServerPath)) = ServerPath

\* std::fs::metadata(path).is_ok()
exists(fs, p) == fs[p].k # "none"

\* std::fs::create_dir_all: fails when a component is a regular file
create_dir_all(fs, p) ==
    IF \E q \in Prefixes(p) : fs[q].k = "file"
    THEN [ok |-> FALSE, fs |-> fs]
    ELSE [ok |-> TRUE, fs |-> [q \in DOMAIN fs |-> IF q \in Prefixes(p) THEN Dir ELSE fs[q]]]

parent(p) == SubSeq(p, 1, Len(p) - 1)

\* File::create followed by io::copy of the entry's bytes; io = "err" is a
\* write that fails after the file was created (it keeps a partial content)
\* a file opened for appending: the old bytes stay in front of the new ones
create_and_copy_append(fs, p, data, io) ==
    IF fs[p].k = "dir"
    THEN [ok |-> FALSE, fs |-> fs]
    ELSE IF io = "err"
    THEN [ok |-> FALSE, fs |-> [fs EXCEPT ![p] = File("partial")]]
    ELSE [ok |-> TRUE,
          fs |-> [fs EXCEPT ![p] = IF fs[p].k = "file" THEN File(fs[p].c \o data)
                                   ELSE File(data)]]

\* a failed write that removes what it left behind
create_and_copy_remove_on_error(fs, p, data, io) ==
    IF fs[p].k = "dir"
    THEN [ok |-> FALSE, fs |-> fs]
    ELSE IF io = "err"
    THEN [ok |-> FALSE, fs |-> [fs EXCEPT ![p] = Absent]]
    ELSE [ok |-> TRUE, fs |-> [fs EXCEPT ![p] = File(data)]]

\* a file that exists is left as it is
create_and_copy_keep_existing(fs, p, data, io) ==
    IF fs[p].k = "dir"
    THEN [ok |-> FALSE, fs |-> fs]
    ELSE IF io = "err"
    THEN [ok |-> FALSE, fs |-> [fs EXCEPT ![p] = File("partial")]]
    ELSE [ok |-> TRUE, fs |-> [fs EXCEPT ![p] = IF fs[p].k = "file" THEN fs[p]
                                                   ELSE File(data)]]

create_and_copy(fs, p, data, io) ==
    IF fs[p].k = "dir"
    THEN [ok |-> FALSE, fs |-> fs]
    ELSE IF io = "err"
    THEN [ok |-> FALSE, fs |-> [fs EXCEPT ![p] = File("partial")]]
    ELSE [ok |-> TRUE, fs |-> [fs EXCEPT ![p] = File(data)]]

IoOutcomes == {"ok", "err"}

(***************************************************************************)
(* apply_update, one iteration of its loop (lines 129-153)                 *)
(***************************************************************************)
should_exclude_even_if_missing(fs, server_path, entry, exclude_set) ==
    entry.name \in exclude_set

\* an excluded directory protects everything beneath it
should_exclude_beneath(fs, server_path, entry, exclude_set) ==
    /\ \E q \in Prefixes(entry.name) : q \in exclude_set
    /\ exists(fs, join(server_path, entry.name))

\* no exclusion at all
should_exclude_never(fs, server_path, entry, exclude_set) == FALSE

should_exclude(fs, server_path, entry, exclude_set) ==
    /\ entry.name \in exclude_set
    /\ exists(fs, join(server_path, entry.name))

extract_entry(fs, server_path, entry, exclude_set, io) ==
    LET out_path == join(server_path, entry.name) IN
    IF ~enclosed_name(entry).some
    THEN [op |-> "skip_unsafe", fs |-> fs]
    ELSE IF should_exclude(fs, server_path, entry, exclude_set)
    THEN [op |-> "skip_excluded", fs |-> fs]
    ELSE IF entry.dir
    THEN IF io = "err" \/ ~create_dir_all(fs, out_path).ok
         THEN [op |-> "panic", fs |-> fs]
         ELSE [op |-> "mkdir", fs |-> create_dir_all(fs, out_path).fs]
    ELSE IF ~create_dir_all(fs, parent(out_path)).ok
    THEN [op |-> "panic", fs |-> fs]
    ELSE LET w == create_and_copy(create_dir_all(fs, parent(out_path)).fs,
                                  out_path, entry.data, io) IN
         [op |-> IF w.ok THEN "write" ELSE "panic", fs |-> w.fs]

(***************************************************************************)
(* get_json_from_web_with_url, get_json_from_cache, fetch_update_zip,      *)
(* update_cache                                                            *)
(***************************************************************************)
ConnErr == [err |-> TRUE, status |-> 0, body |-> Garbage]
Resp(status, body) == [err |-> FALSE, status |-> status, body |-> body]

is_success(status) == status >= 200 /\ status <= 299

\* what the manifest endpoint can answer
WebResponses ==
    {ConnErr} \cup {Resp(200, JsonBody(d)) : d \in RemoteDocs}
              \cup {Resp(200, Garbage), Resp(500, Garbage), Resp(500, JsonBody(ManifestA))}

\* what a download URL can answer; "0.0.0" is no URL a request can be sent to
ZipResponses(url) ==
    {ConnErr} \cup
    IF url \in {UrlW1, UrlW2, UrlL1}
    THEN {Resp(200, ZipBody(ArchiveAt(url))), Resp(200, Garbage), Resp(404, Garbage)}
    ELSE {}

\* reqwest::blocking::get(url).and_then(|resp| resp.json()), Null on any error
get_json_from_web_with_url(resp) ==
    IF resp.err THEN JNull
    ELSE IF parse_json(resp.body).some THEN parse_json(resp.body).v
    ELSE JNull

\* std::fs::File::open
open_file(file) == IF file.k \in {"nofile", "unreadable"} THEN None ELSE Some(file)

\* a reader that takes the document a cut-short text began
get_json_from_cache_recovering(file) ==
    IF file.k \in {"json", "truncated"} THEN file.doc ELSE JNull

get_json_from_cache(file) ==
    IF ~open_file(file).some THEN JNull
    ELSE IF parse_json(open_file(file).v).some THEN parse_json(open_file(file).v).v
    ELSE JNull

\* str::split('/'): the segments between the separators, at least one
RECURSIVE split(_, _)
split(s, cur) ==
    IF s = <<>> THEN <<cur>>
    ELSE IF Head(s) = "/" THEN <<cur>> \o split(Tail(s), <<>>)
    ELSE split(Tail(s), Append(cur, Head(s)))

DefaultFileName == <<"u","p","d","a","t","e",".","z","i","p">>   \* "update.zip"

\* the text before the first '/'
file_name_of_first_segment(download_url) ==
    LET parts == split(download_url, <<>>) IN
    IF parts = <<>> THEN DefaultFileName ELSE parts[1]

file_name_of(download_url) ==
    LET parts == split(download_url, <<>>) IN
    IF parts = <<>> THEN DefaultFileName ELSE parts[Len(parts)]

TmpNames == {file_name_of(u) : u \in Urls}

\* temp_dir().join(name) is a directory for these names ("", "." and ".."),
\* so File::create on it fails
names_directory(file_name) == file_name \in {<<>>, <<".">>, <<".", ".">>}

\* io: "ok", "create_err" (File::create fails), "copy_err" (the body cannot
\* be read or written after the file was created)
FetchIo == {"ok", "create_err", "copy_err"}

\* the staged file created before the status is looked at
fetch_update_zip_create_first(download_url, resp, io, temp) ==
    LET file_name == file_name_of(download_url) IN
    IF resp.err THEN [path |-> None, temp |-> temp]
    ELSE IF io = "create_err" \/ names_directory(file_name)
    THEN [path |-> None, temp |-> temp]
    ELSE IF ~is_success(resp.status)
    THEN [path |-> None, temp |-> [temp EXCEPT ![file_name] = EmptyBody]]
    ELSE IF io = "copy_err"
    THEN [path |-> None, temp |-> [temp EXCEPT ![file_name] = Garbage]]
    ELSE [path |-> Some(file_name), temp |-> [temp EXCEPT ![file_name] = resp.body]]

fetch_update_zip(download_url, resp, io, temp) ==
    LET file_name == file_name_of(download_url) IN
    IF resp.err THEN [path |-> None, temp |-> temp]
    ELSE IF ~is_success(resp.status) THEN [path |-> None, temp |-> temp]
    ELSE IF io = "create_err" \/ names_directory(file_name)
    THEN [path |-> None, temp |-> temp]
    ELSE IF io = "copy_err"
    THEN [path |-> None, temp |-> [temp EXCEPT ![file_name] = Garbage]]
    ELSE [path |-> Some(file_name), temp |-> [temp EXCEPT ![file_name] = resp.body]]

\* io: "ok", "create_err" (create_dir_all or File::create fails),
\* "write_err" (to_writer fails after the file was truncated)
CacheIo == {"ok", "create_err", "write_err"}

update_cache_keeps_old(web_json_, file, io) ==
    IF io = "create_err" THEN [ok |-> FALSE, file |-> file]
    ELSE IF io = "write_err" THEN [ok |-> FALSE, file |-> Garbage]
    ELSE [ok |-> TRUE, file |-> file]

update_cache_err_after_write(web_json_, file, io) ==
    IF io = "create_err" THEN [ok |-> FALSE, file |-> file]
    ELSE IF io = "write_err" THEN [ok |-> FALSE, file |-> to_json(web_json_)]
    ELSE [ok |-> TRUE, file |-> to_json(web_json_)]

update_cache(web_json_, file, io) ==
    IF io = "create_err" THEN [ok |-> FALSE, file |-> file]
    ELSE IF io = "write_err" THEN [ok |-> FALSE, file |-> Garbage]
    ELSE [ok |-> TRUE, file |-> to_json(web_json_)]

(***************************************************************************)
(* State                                                                   *)
(***************************************************************************)
VARIABLES
    pc,                 \* where update() stands
    runs,               \* number of runs started so far
    args,               \* UpdateArgs of the current run
    web_json,           \* local of update(), line 4
    cache_json,         \* local of update(), line 9
    web_download_url,   \* local of update(), line 10
    cache_download_url, \* local of update(), line 11
    zip_path,           \* Option: the file name fetch_update_zip returned
    archive,            \* apply_update: the entries of the opened archive
    idx,                \* apply_update: 0 before the archive is opened, then the loop index + 1
    tree,               \* the file system the archive is extracted to
    cache,              \* content of the file at args.cache_path
    temp,               \* content of the files of std::env::temp_dir()
    outcome,            \* how the last run ended (what it printed, or the panic)
    did,                \* history: what the current run has called so far
    start,              \* history: tree, cache and temp when the current run started
    applied_urls,       \* history: the URLs whose archive an apply_update has fully extracted
    lastOp,             \* history: what the last iteration of the extraction loop did
    prev,               \* history: the previous run, if it applied and failed to write the cache
    web_resp,           \* history: the response get_json_from_web just consumed (dropped at the next step)
    q_json,             \* resolver query: the document
    q_type,             \* resolver query: the download identity
    q_result,           \* resolver query: Some(result) once the resolver was applied
    writers,            \* concurrent update_cache calls: position of each
    cache_bytes,        \* concurrent update_cache calls: the tokens in the shared cache file
    stagers,            \* concurrent runs: position, URL and staged path of each
    stage_dir,          \* concurrent runs: the files of the shared temp directory
    last_touch,         \* history: who last created, truncated or deleted which staged file
    f_in,               \* fetch_update_zip call: URL, response, I/O outcome, temp directory before
    f_out,              \* fetch_update_zip call: Some(returned path, temp directory after)
    c_fs,               \* cache path: whether its parent directory and the file exist
    c_written,          \* cache path: the manifests of the update_cache calls so far
    c_read              \* cache path: Some(what get_json_from_cache returned)

vars == <<pc, runs, args, web_json, cache_json, web_download_url, cache_download_url,
          zip_path, archive, idx, tree, cache, temp, outcome, did, start,
          applied_urls, lastOp, prev, web_resp, q_json, q_type, q_result, writers, cache_bytes,
          stagers, stage_dir, last_touch, f_in, f_out, c_fs, c_written, c_read>>

\* the state of update() and of the files it works on
updateVars == <<pc, runs, args, web_json, cache_json, web_download_url, cache_download_url,
                zip_path, archive, idx, tree, cache, temp, outcome, did, start,
                applied_urls, lastOp, prev, web_resp>>

resolveVars == <<q_json, q_type, q_result>>
cacheRaceVars == <<writers, cache_bytes>>
stageRaceVars == <<stagers, stage_dir, last_touch>>
fetchVars == <<f_in, f_out>>
cacheSeqVars == <<c_fs, c_written, c_read>>
otherVars == <<resolveVars, cacheRaceVars, stageRaceVars, fetchVars, cacheSeqVars>>

locals == <<web_json, cache_json, web_download_url, cache_download_url, zip_path,
            archive, idx>>

BaseTree ==
    [p \in Paths |->
        IF p = ServerPath \/ p = <<"etc">> THEN Dir
        ELSE IF p = <<"etc", "x">> THEN File("sys")
        ELSE Absent]

InstalledTree ==
    [BaseTree EXCEPT ![<<"srv", "server.properties">>] = File("user"),
                     ![<<"srv", "bin">>] = File("b0")]

InitTrees == {BaseTree, InstalledTree}

ExcludeChoices == {{}, DefaultExclude}

NoOp == [op |-> "none", entry |-> 0, existed |-> FALSE]
NothingDone == [fetch |-> None, apply |-> "none", cache |-> "none"]
NoArgs == [download_type |-> "Windows", force |-> FALSE, exclude |-> {}]
NoPrev == [failed |-> FALSE, web_json |-> JNull, download_type |-> "Windows", differed |-> FALSE]
NoTouch == [by |-> 0, name |-> <<>>]
NoWebResp == [err |-> FALSE, status |-> 0, body |-> NoFile]

InitUpdateFrom(files) ==
    /\ pc = "idle"
    /\ runs = 0
    /\ args = NoArgs
    /\ web_json = JNull
    /\ cache_json = JNull
    /\ web_download_url = <<>>
    /\ cache_download_url = <<>>
    /\ zip_path = None
    /\ archive = <<>>
    /\ idx = 0
    /\ tree \in InitTrees
    /\ cache \in files
    /\ temp = [n \in TmpNames |-> NoFile]
    /\ outcome = "none"
    /\ did = NothingDone
    /\ start = [tree |-> tree, cache |-> cache, temp |-> temp]
    /\ applied_urls = {}
    /\ lastOp = NoOp
    /\ prev = NoPrev
    /\ web_resp = NoWebResp

\* a first run: no cache file yet
InitUpdate == InitUpdateFrom({NoFile})

ResolveIdle ==
    /\ q_json = JNull
    /\ q_type = "Windows"
    /\ q_result = None

CacheRaceIdle ==
    /\ writers = <<>>
    /\ cache_bytes = <<>>

StageRaceIdle ==
    /\ stagers = <<>>
    /\ stage_dir = [n \in TmpNames |-> NoFile]
    /\ last_touch = NoTouch

FetchIdle ==
    /\ f_in = [url |-> <<>>, resp |-> ConnErr, io |-> "ok", temp |-> <<>>]
    /\ f_out = None

CacheSeqIdle ==
    /\ c_fs = [dir |-> FALSE, exists |-> FALSE]
    /\ c_written = <<>>
    /\ c_read = None

Init ==
    /\ InitUpdate
    /\ ResolveIdle /\ CacheRaceIdle /\ StageRaceIdle /\ FetchIdle /\ CacheSeqIdle

Ended == pc \in {"done", "aborted"}

\* main(): update(args) is called with the parsed arguments; at most n runs,
\* p is what the history keeps of the run before
StartRunWith(n, p) ==
    /\ pc = "idle" \/ Ended
    /\ runs < n
    /\ \E dt \in RunTypes, force \in BOOLEAN, ex \in ExcludeChoices :
          args' = [download_type |-> dt, force |-> force, exclude |-> ex]
    /\ runs' = runs + 1
    /\ pc' = "FetchingRemote"
    /\ web_json' = JNull
    /\ cache_json' = JNull
    /\ web_download_url' = <<>>
    /\ cache_download_url' = <<>>
    /\ zip_path' = None
    /\ archive' = <<>>
    /\ idx' = 0
    /\ outcome' = "none"
    /\ did' = NothingDone
    /\ start' = [tree |-> tree, cache |-> cache, temp |-> temp]
    /\ lastOp' = NoOp
    /\ prev' = p
    /\ web_resp' = NoWebResp
    /\ UNCHANGED <<tree, cache, temp, applied_urls>>
    /\ UNCHANGED otherVars

StartRunUpTo(n) ==
    StartRunWith(n, IF pc = "done" /\ did.apply = "completed" /\ did.cache = "err"
                    THEN [failed |-> TRUE, web_json |-> web_json,
                          download_type |-> args.download_type,
                          differed |-> web_download_url # cache_download_url]
                    ELSE NoPrev)

StartRun == StartRunUpTo(MaxRuns)

StartLiveRun == StartRunUpTo(MaxLiveRuns)

\* update(), lines 4-7
FetchRemote ==
    /\ pc = "FetchingRemote"
    /\ \E resp \in WebResponses :
          /\ web_resp' = resp
          /\ web_json' = get_json_from_web_with_url(resp)
          /\ IF is_null(web_json')
             THEN pc' = "done" /\ outcome' = "remote_absent"
             ELSE pc' = "ResolvingVersions" /\ outcome' = outcome
    /\ UNCHANGED <<runs, args, cache_json, web_download_url, cache_download_url, zip_path,
                   archive, idx, tree, cache, temp, did, start, applied_urls, lastOp>>
    /\ UNCHANGED <<prev, otherVars>>

\* a missing link taken for "nothing to update"
after_resolve_no_update(web) ==
    IF web.some THEN [pc |-> "ComparingVersions", outcome |-> "none"]
    ELSE [pc |-> "done", outcome |-> "up_to_date"]

\* update(), line 10: the unwrap panics on None
after_resolve(web) ==
    IF web.some THEN [pc |-> "ComparingVersions", outcome |-> "none"]
    ELSE [pc |-> "aborted", outcome |-> "panic_no_link"]

\* update(), lines 9-15
ResolveVersions ==
    /\ pc = "ResolvingVersions"
    /\ cache_json' = get_json_from_cache(cache)
    /\ LET web == get_download_url_from_json(web_json, args.download_type)
           cached == get_download_url_from_json(cache_json', args.download_type) IN
       /\ pc' = after_resolve(web).pc
       /\ outcome' = after_resolve(web).outcome
       /\ IF ~web.some
          THEN UNCHANGED <<web_download_url, cache_download_url>>
          ELSE /\ web_download_url' = web.v
               /\ cache_download_url' = IF cached.some THEN cached.v ELSE DefaultToken
    /\ UNCHANGED <<runs, args, web_json, zip_path, archive, idx, tree, cache, temp, did,
                   start, applied_urls, lastOp>>
    /\ web_resp' = NoWebResp
    /\ UNCHANGED <<prev, otherVars>>

\* update(), line 17: the run stops here as "already on the latest version"
already_latest_ignoring_force(force, web, cached) == web = cached

already_latest_never(force, web, cached) == FALSE

already_latest(force, web, cached) == ~force /\ web = cached

\* update(), lines 17-25
CompareVersions ==
    /\ pc = "ComparingVersions"
    /\ IF already_latest(args.force, web_download_url, cache_download_url)
       THEN pc' = "done" /\ outcome' = "up_to_date"
       ELSE pc' = "Downloading" /\ outcome' = outcome
    /\ UNCHANGED <<runs, args, locals, tree, cache, temp, did, start, applied_urls, lastOp>>
    /\ web_resp' = NoWebResp
    /\ UNCHANGED <<prev, otherVars>>

\* update(), lines 26-28: the let-else on the result of fetch_update_zip
after_download_falls_through(path) == IF path.some THEN "Applying" ELSE "WritingCache"

\* a failed download tried again
after_download_retries(path) == IF path.some THEN "Applying" ELSE "Downloading"

after_download(path) == IF path.some THEN "Applying" ELSE "done"

\* update(), lines 26-28
Download ==
    /\ pc = "Downloading"
    /\ \E resp \in ZipResponses(web_download_url), io \in FetchIo :
          LET r == fetch_update_zip(web_download_url, resp, io, temp) IN
          /\ zip_path' = r.path
          /\ temp' = r.temp
          /\ pc' = after_download(r.path)
          /\ outcome' = IF r.path.some THEN outcome ELSE "fetch_failed"
    /\ did' = [did EXCEPT !.fetch = Some(web_download_url)]
    /\ UNCHANGED <<runs, args, web_json, cache_json, web_download_url, cache_download_url,
                   archive, idx, tree, cache, start, applied_urls, lastOp>>
    /\ web_resp' = NoWebResp
    /\ UNCHANGED <<prev, otherVars>>

\* apply_update, line 124: both unwraps panic when the file is no archive
ApplyOpen ==
    /\ pc = "Applying"
    /\ idx = 0
    /\ did' = [did EXCEPT !.apply = IF open_zip(temp[zip_path.v]).some /\
                                        open_zip(temp[zip_path.v]).v = <<>>
                                     THEN "completed" ELSE "started"]
    /\ IF ~open_zip(temp[zip_path.v]).some
       THEN /\ pc' = "aborted"
            /\ outcome' = "panic_archive"
            /\ UNCHANGED <<archive, idx, applied_urls>>
       ELSE /\ archive' = open_zip(temp[zip_path.v]).v
            /\ idx' = 1
            /\ outcome' = outcome
            /\ IF archive' = <<>>
               THEN pc' = "CleaningUp" /\ applied_urls' = applied_urls \cup {web_download_url}
               ELSE pc' = "Applying" /\ applied_urls' = applied_urls
    /\ UNCHANGED <<runs, args, web_json, cache_json, web_download_url, cache_download_url,
                   zip_path, tree, cache, temp, start, lastOp>>
    /\ web_resp' = NoWebResp
    /\ UNCHANGED <<prev, otherVars>>

\* apply_update, line 128: `for i in 0..archive.len()` moves on to the next index
next_index_stuck(i) == i

next_index(i) == i + 1

\* apply_update, lines 145-152: every unwrap() of the loop panics on an error,
\* which ends the run where it stands
after_entry_failure_goes_on == "CleaningUp"

after_entry_failure == "aborted"

\* apply_update, lines 128-154: one iteration of the loop
ApplyEntry ==
    /\ pc = "Applying"
    /\ idx >= 1
    /\ idx <= Len(archive)
    /\ \E io \in IoOutcomes :
          LET entry == archive[idx]
              r == extract_entry(tree, ServerPath, entry, args.exclude, io) IN
          /\ tree' = r.fs
          /\ lastOp' = [op |-> r.op, entry |-> idx,
                        existed |-> exists(tree, join(ServerPath, entry.name))]
          /\ IF r.op = "panic"
             THEN /\ pc' = after_entry_failure
                  /\ outcome' = "panic_extract"
                  /\ UNCHANGED <<idx, did, applied_urls>>
             ELSE /\ idx' = next_index(idx)
                  /\ outcome' = outcome
                  /\ IF idx' = Len(archive) + 1
                     THEN /\ pc' = "CleaningUp"
                          /\ did' = [did EXCEPT !.apply = "completed"]
                          /\ applied_urls' = applied_urls \cup {web_download_url}
                     ELSE /\ pc' = "Applying"
                          /\ UNCHANGED <<did, applied_urls>>
    /\ UNCHANGED <<runs, args, web_json, cache_json, web_download_url, cache_download_url,
                   zip_path, archive, cache, temp, start>>
    /\ web_resp' = NoWebResp
    /\ UNCHANGED <<prev, otherVars>>

\* update(), line 31: remove_file(zip_path).unwrap()
CleanUp ==
    /\ pc = "CleaningUp"
    /\ \E ok \in BOOLEAN :
          IF ok
          THEN /\ temp' = [temp EXCEPT ![zip_path.v] = NoFile]
               /\ pc' = "WritingCache"
               /\ outcome' = outcome
          ELSE /\ temp' = temp
               /\ pc' = "aborted"
               /\ outcome' = "panic_remove"
    /\ UNCHANGED <<runs, args, locals, tree, cache, did, start, applied_urls, lastOp>>
    /\ web_resp' = NoWebResp
    /\ UNCHANGED <<prev, otherVars>>

\* update(), lines 33-36: `if let Err(e)` logs the error, then the run reports success
after_update_cache_unwrapped(ok) ==
    IF ok THEN [pc |-> "done", outcome |-> "applied"]
    ELSE [pc |-> "aborted", outcome |-> "panic_cache"]

after_update_cache(ok) == [pc |-> "done", outcome |-> "applied"]

\* update(), lines 33-36
WriteCache ==
    /\ pc = "WritingCache"
    /\ \E io \in CacheIo :
          LET r == update_cache(web_json, cache, io) IN
          /\ cache' = r.file
          /\ did' = [did EXCEPT !.cache = IF r.ok THEN "ok" ELSE "err"]
          /\ pc' = after_update_cache(r.ok).pc
          /\ outcome' = after_update_cache(r.ok).outcome
    /\ UNCHANGED <<runs, args, locals, tree, temp, start, applied_urls, lastOp>>
    /\ web_resp' = NoWebResp
    /\ UNCHANGED <<prev, otherVars>>

Next ==
    \/ StartRun
    \/ FetchRemote
    \/ ResolveVersions
    \/ CompareVersions
    \/ Download
    \/ ApplyOpen
    \/ ApplyEntry
    \/ CleanUp
    \/ WriteCache

Spec == Init /\ [][Next]_vars

\* a run in progress is one thread of blocking calls: it always takes its next step
RunStep ==
    \/ FetchRemote
    \/ ResolveVersions
    \/ CompareVersions
    \/ Download
    \/ ApplyOpen
    \/ ApplyEntry
    \/ CleanUp
    \/ WriteCache

LiveNext == StartLiveRun \/ RunStep

LiveSpec == Init /\ [][LiveNext]_vars /\ WF_vars(RunStep)

TypeOK ==
    /\ pc \in {"idle", "FetchingRemote", "ResolvingVersions", "ComparingVersions",
               "Downloading", "Applying", "CleaningUp", "WritingCache", "done", "aborted"}
    /\ runs \in 0..MaxRuns
    /\ DOMAIN tree = Paths
    /\ DOMAIN temp = TmpNames

(***************************************************************************)
(* What a run resolved, read off the run's inputs                          *)
(***************************************************************************)
\* line 10: the URL the remote manifest of this run yields for the identity
RemoteUrl == get_download_url_from_json(web_json, args.download_type)

\* lines 9-12: the token of the cache as the run found it
CachedToken ==
    LET cached == get_download_url_from_json(get_json_from_cache(start.cache),
                                             args.download_type) IN
    IF cached.some THEN cached.v ELSE DefaultToken

RunWanted ==
    /\ ~is_null(web_json)
    /\ RemoteUrl.some
    /\ args.force \/ RemoteUrl.v # CachedToken

Outside == {p \in Paths : ~InsideTarget(p)}

(***************************************************************************)
(* C1                                                                      *)
(***************************************************************************)
\* C1 as stated: at the end of every run, apply_update has been run on the
\* target tree if and only if the remote manifest is present and (force is
\* set or the remote token differs from the cached token).
C1_AsStated ==
    Ended => ((did.apply # "none") <=> RunWanted)

\* C1 amended: at the end of every run, apply_update has been run on the
\* target tree if and only if the remote manifest is present, yields a URL
\* for the identity, (force is set or that URL differs from the cached
\* token) and the archive download did not fail.
C1_ApplyIff ==
    Ended => ((did.apply # "none") <=> (RunWanted /\ outcome # "fetch_failed"))

C1_Witness ==
    /\ pc = "done"
    /\ outcome = "applied"
    /\ ~args.force
    /\ RemoteUrl.v # CachedToken

(***************************************************************************)
(* C2                                                                      *)
(***************************************************************************)
\* C2 as stated: at the normal end of every run, the cache file has been
\* written if and only if apply_update completed in that run.
C2_AsStated ==
    pc = "done" => ((did.cache = "ok") <=> (did.apply = "completed"))

\* C2 amended: the cache file is touched by a run only after apply_update
\* completed in that run (never merely because the remote manifest was
\* fetched), and a run that ends normally after a completed apply_update has
\* attempted the cache write; the write itself may fail.
C2_CacheOnlyAfterApply ==
    /\ (did.cache # "none" \/ cache # start.cache) => did.apply = "completed"
    /\ (pc = "done" /\ did.apply = "completed") => did.cache # "none"
    /\ did.cache = "none" => cache = start.cache

C2_Witness ==
    /\ pc = "done"
    /\ did.apply = "completed"
    /\ did.cache = "ok"
    /\ cache # start.cache

(***************************************************************************)
(* C3                                                                      *)
(***************************************************************************)
\* C3: when the remote manifest and the cache resolve to the same URL for
\* the identity and force is not set, the run ends as "already on the latest
\* version" without calling fetch_update_zip, apply_update or update_cache,
\* and target tree, cache file and temp directory are as the run found them.
C3_SkipLeavesAll ==
    (runs > 0 /\ ~is_null(web_json) /\ RemoteUrl.some /\ ~args.force
       /\ RemoteUrl.v = CachedToken)
    => /\ pc \in {"ResolvingVersions", "ComparingVersions", "done"}
       /\ pc = "done" => outcome = "up_to_date"
       /\ did = NothingDone
       /\ tree = start.tree
       /\ cache = start.cache
       /\ temp = start.temp

C3_Witness ==
    /\ pc = "done"
    /\ outcome = "up_to_date"
    /\ ~args.force
    /\ start.cache = to_json(web_json)
    /\ web_download_url = UrlW1

(***************************************************************************)
(* C4                                                                      *)
(***************************************************************************)
\* C4: when the remote manifest resolves to a URL and force is set or the
\* URL differs from the cached token, the comparison hands over to the
\* download step, and the download step calls fetch_update_zip with the
\* remote URL; so every such run has called it when it ends.
C4_ProceedsToDownload ==
    (RunWanted /\ pc \notin {"ResolvingVersions", "ComparingVersions"})
    => \/ pc = "Downloading" /\ web_download_url = RemoteUrl.v
       \/ did.fetch = Some(RemoteUrl.v)

C4_Witness ==
    /\ did.fetch = Some(UrlW1)
    /\ args.force
    /\ web_download_url = cache_download_url
    /\ CachedToken = UrlW1

(***************************************************************************)
(* C5                                                                      *)
(***************************************************************************)
\* C5: in the extraction loop, an entry whose relative path is in the
\* exclusion set leaves the whole tree untouched when its destination exists
\* at that moment; when the destination does not exist the entry is
\* extracted like any other: after the iteration the destination holds the
\* entry (a directory, or a file with the entry's bytes), unless the
\* extraction of that entry fails and aborts the run.
C5_Exclusion ==
    [][ (pc = "Applying" /\ idx >= 1 /\ idx <= Len(archive)
           /\ archive[idx].name \in args.exclude)
        => LET dest == join(ServerPath, archive[idx].name) IN
           /\ exists(tree, dest) =>
                 (tree' = tree /\ pc' # "aborted" /\ lastOp'.op = "skip_excluded")
           /\ (~exists(tree, dest) /\ pc' # "aborted") =>
                 tree'[dest] = IF archive[idx].dir THEN Dir ELSE File(archive[idx].data)
      ]_vars

\* an excluded file that a first run created from the archive (it was
\* missing) is skipped by a later run that finds it
C5_Witness ==
    /\ lastOp.op = "skip_excluded"
    /\ lastOp.existed
    /\ args.exclude = DefaultExclude
    /\ start.tree[<<"srv", "server.properties">>] = File("p1")
    /\ tree[<<"srv", "server.properties">>] = File("p1")
    /\ archive = Archive2

(***************************************************************************)
(* C6                                                                      *)
(***************************************************************************)
\* C6: once fetch_update_zip has staged the archive, the staged file is gone
\* when the run has ended after the apply attempt, whether apply_update
\* succeeded or failed.
C6_StagedFileRemoved ==
    (Ended /\ did.apply # "none") => temp[zip_path.v] = NoFile

(***************************************************************************)
(* C7                                                                      *)
(***************************************************************************)
\* C7 as stated: at the normal end of a run in which apply_update completed,
\* the staged file no longer exists and the cache file holds the remote
\* manifest fetched in that run.
C7_AsStated ==
    (pc = "done" /\ did.apply = "completed")
    => /\ temp[zip_path.v] = NoFile
       /\ cache = to_json(web_json)

\* C7 amended: at the normal end of a run in which apply_update completed,
\* the staged file no longer exists, and the cache file holds the remote
\* manifest fetched in that run provided update_cache returned Ok.
C7_CleanupAndCache ==
    (pc = "done" /\ did.apply = "completed")
    => /\ temp[zip_path.v] = NoFile
       /\ did.cache = "ok" =>
             /\ cache = to_json(web_json)
             /\ get_json_from_cache(cache) = web_json

C7_Witness ==
    /\ pc = "done"
    /\ did.apply = "completed"
    /\ did.cache = "ok"
    /\ temp[zip_path.v] = NoFile
    /\ cache = to_json(ManifestB)
    /\ start.cache = to_json(ManifestA)

(***************************************************************************)
(* C8                                                                      *)
(***************************************************************************)
\* C8: with no cache file the cached token is "0.0.0", and every non-empty
\* token the remote manifest resolves to makes the run go on to the
\* download, also without force: the run is never skipped as up to date.
C8_NoCacheAlwaysUpdates ==
    (runs > 0 /\ start.cache = NoFile /\ ~is_null(web_json) /\ RemoteUrl.some
       /\ RemoteUrl.v # <<>> /\ pc \notin {"FetchingRemote", "ResolvingVersions"})
    => /\ cache_download_url = DefaultToken
       /\ outcome # "up_to_date"
       /\ Ended => did.fetch # None

(***************************************************************************)
(* C9                                                                      *)
(***************************************************************************)
\* C9: whenever a run without force is skipped as already up to date because
\* the cache resolves to the remote URL, that URL is the URL of an archive
\* that an earlier run has applied to the target tree.  (The skip against
\* the default token of a missing cache is the case of C8.)
C9_SkippedOnlyIfApplied ==
    (outcome = "up_to_date" /\ cache_download_url # DefaultToken)
    => web_download_url \in applied_urls

(***************************************************************************)
(* C10                                                                     *)
(***************************************************************************)
\* C10: no step creates or changes a path outside the target directory; an
\* iteration on an entry whose name is absolute or climbs out through ".."
\* changes nothing, does not abort, and the loop goes on with the next entry.
C10_NoEscape ==
    [][ /\ \A p \in Outside : tree'[p] = tree[p]
        /\ (pc = "Applying" /\ idx >= 1 /\ idx <= Len(archive)
              /\ Depth(archive[idx].name, 0) < 0)
           => /\ tree' = tree
              /\ pc' \in {"Applying", "CleaningUp"}
              /\ idx' = idx + 1
      ]_vars

\* Archive1 fully applied: its "../evil" entry left no file, the entry
\* after it was extracted
C10_Witness ==
    /\ did.apply = "completed"
    /\ archive = Archive1
    /\ tree[<<"evil">>] = Absent
    /\ tree[<<"srv", "bin">>] = File("b1")
    /\ lastOp.entry = 3

(***************************************************************************)
(* C11                                                                     *)
(***************************************************************************)
\* C11: a run that ends because the remote manifest could not be fetched or
\* parsed, or because the archive download failed, ends normally (no abort)
\* and leaves the target tree and the cache file as it found them.
C11_SoftFailureChangesNothing ==
    (outcome \in {"remote_absent", "fetch_failed"})
    => /\ pc = "done"
       /\ tree = start.tree
       /\ cache = start.cache
       /\ did.apply = "none"
       /\ did.cache = "none"

C11_Witness ==
    /\ pc = "done"
    /\ outcome = "fetch_failed"
    /\ temp = start.temp
    /\ cache = to_json(ManifestA)
    /\ web_json = ManifestB

(***************************************************************************)
(* C12                                                                     *)
(***************************************************************************)
\* C12: the cache-write step never aborts and never changes the target tree:
\* when update_cache fails after a completed apply_update the run still ends
\* normally, reporting the update as applied, with the error reported and
\* the tree as apply_update left it.
C12_CacheFailureNotFatal ==
    [][ pc = "WritingCache"
        => /\ tree' = tree
           /\ pc' = "done"
           /\ outcome' = "applied"
           /\ did'.apply = "completed"
           /\ did'.cache \in {"ok", "err"}
      ]_vars

C12_Witness ==
    /\ pc = "done"
    /\ outcome = "applied"
    /\ did.cache = "err"
    /\ did.apply = "completed"
    /\ tree # start.tree
    /\ tree[<<"srv", "bin">>] = File("b1")

(***************************************************************************)
(* C14                                                                     *)
(***************************************************************************)
\* C14: a run ends in a fatal abort only through an archive error inside
\* apply_update or through a present remote manifest without a URL for the
\* identity; no other step aborts the run.
C14_AbortOnlyInApplyOrResolve ==
    pc = "aborted" => outcome \in {"panic_archive", "panic_extract", "panic_no_link"}

(***************************************************************************)
(* C13                                                                     *)
(***************************************************************************)
SameAsFailedRun ==
    /\ prev.failed
    /\ web_json = prev.web_json
    /\ args.download_type = prev.download_type
    /\ ~args.force

C15_RunTerminates ==
    /\ (pc \notin {"idle", "done", "aborted"}) ~> Ended
    /\ [][ (pc = "Applying" /\ idx >= 1)
           => \/ pc' = "aborted" /\ idx' = idx
              \/ idx' = idx + 1 /\ idx <= Len(archive) ]_vars
    /\ [](did.apply = "completed" => idx = Len(archive) + 1)
    /\ [](pc = "Applying" => idx <= Len(archive))

C15_Witness ==
    /\ pc = "done"
    /\ outcome = "applied"
    /\ archive = Archive2
    /\ idx = 5
    /\ lastOp.entry = 4

(***************************************************************************)
(* Concurrent update_cache calls on one cache path (lines 157-165).        *)
(* serde_json::to_writer hands the document to the unbuffered File token   *)
(* by token; every File::create truncates the file and starts an own       *)
(* position at 0.  Positions count tokens.                                 *)
(***************************************************************************)
Punct(c) == [tok |-> "punct", c |-> c]
KeyTok(key) == [tok |-> "key", key |-> key]
StrTok(str) == [tok |-> "str", s |-> str]
NumTok(n) == [tok |-> "num", n |-> n]
NullTok == [tok |-> "null"]
ZeroTok == [tok |-> "zero"]       \* the hole left by a write beyond the end of the file

\* serde_json::Map without preserve_order is a BTreeMap: keys in byte order
KeyOrder == <<"downloadType", "downloadUrl", "links", "result", "thread_id">>

RECURSIVE to_writer(_)
RECURSIVE array_tokens(_)
RECURSIVE member_tokens(_, _, _)

\* the members of object o whose keys are KeyOrder[i..], comma separated
member_tokens(o, i, first) ==
    IF i > Len(KeyOrder) THEN <<>>
    ELSE IF KeyOrder[i] \notin DOMAIN o THEN member_tokens(o, i + 1, first)
    ELSE (IF first THEN <<>> ELSE <<Punct(",")>>)
         \o <<KeyTok(KeyOrder[i]), Punct(":")>> \o to_writer(o[KeyOrder[i]])
         \o member_tokens(o, i + 1, FALSE)

array_tokens(a) ==
    IF a = <<>> THEN <<>>
    ELSE to_writer(Head(a))
         \o (IF Tail(a) = <<>> THEN <<>> ELSE <<Punct(",")>>)
         \o array_tokens(Tail(a))

\* serde_json::to_writer: the sequence of writes for a document
to_writer(doc) ==
    CASE doc.t = "null" -> <<NullTok>>
      [] doc.t = "str" -> <<StrTok(doc.s)>>
      [] doc.t = "num" -> <<NumTok(doc.n)>>
      [] doc.t = "arr" -> <<Punct("[")>> \o array_tokens(doc.a) \o <<Punct("]")>>
      [] doc.t = "obj" -> <<Punct("{")>> \o member_tokens(doc.o, 1, TRUE) \o <<Punct("}")>>

\* the manifest writer w hands to update_cache
WriterDoc(w) ==
    CASE w = 1 -> ManifestC
      [] w = 2 -> Manifest(<<>>)
      [] OTHER -> JObj([k \in {"thread_id"} |-> JNum(w)])

Writers == 1..NWriters

\* write(2) of one token at position pos (0-based); a gap is filled with zeros
write_at(bytes, pos, tok) ==
    [i \in 1..(IF pos + 1 > Len(bytes) THEN pos + 1 ELSE Len(bytes)) |->
        IF i = pos + 1 THEN tok
        ELSE IF i <= Len(bytes) THEN bytes[i]
        ELSE ZeroTok]

InitCacheRace ==
    /\ InitUpdate /\ ResolveIdle /\ StageRaceIdle /\ FetchIdle /\ CacheSeqIdle
    /\ writers = [w \in Writers |-> [pc |-> "start", pos |-> 0]]
    /\ cache_bytes = <<>>

\* update_cache, lines 158-162: File::create truncates the file
WriterCreate(w) ==
    /\ writers[w].pc = "start"
    /\ cache_bytes' = <<>>
    /\ writers' = [writers EXCEPT ![w] =
                      [pc |-> IF to_writer(WriterDoc(w)) = <<>> THEN "returned" ELSE "writing",
                       pos |-> 0]]
    /\ UNCHANGED <<updateVars, resolveVars, stageRaceVars, fetchVars, cacheSeqVars>>

\* update_cache, line 163: the next write of to_writer
WriterWrite(w) ==
    /\ writers[w].pc = "writing"
    /\ LET toks == to_writer(WriterDoc(w))
           pos == writers[w].pos IN
       /\ cache_bytes' = write_at(cache_bytes, pos, toks[pos + 1])
       /\ writers' = [writers EXCEPT ![w] =
                         [pc |-> IF pos + 1 = Len(toks) THEN "returned" ELSE "writing",
                          pos |-> pos + 1]]
    /\ UNCHANGED <<updateVars, resolveVars, stageRaceVars, fetchVars, cacheSeqVars>>

CacheRaceNext ==
    \/ \E w \in Writers : WriterCreate(w)
    \/ \E w \in Writers : WriterWrite(w)

CacheRaceSpec == InitCacheRace /\ [][CacheRaceNext]_vars

AllReturned == writers # <<>> /\ \A w \in Writers : writers[w].pc = "returned"

(***************************************************************************)
(* C16                                                                     *)
(***************************************************************************)
\* C16: when all concurrent update_cache calls have returned, the cache file
\* holds exactly the serialization of one writer's manifest.
C16_OneWriterWins ==
    AllReturned => \E w \in Writers : cache_bytes = to_writer(WriterDoc(w))

(***************************************************************************)
(* Concurrent runs of update() that share std::env::temp_dir(): of each    *)
(* run the steps that touch the staged file (lines 26-31).                 *)
(***************************************************************************)
Stagers == 1..NStagers

StagerUrls == {UrlW1, UrlL1}

\* fetch_update_zip, lines 95-98: the call got as far as File::create succeeding
creates_file(download_url, resp, io) ==
    /\ ~resp.err
    /\ is_success(resp.status)
    /\ io # "create_err"
    /\ ~names_directory(file_name_of(download_url))

InitStageRace ==
    /\ InitUpdate /\ ResolveIdle /\ CacheRaceIdle /\ FetchIdle /\ CacheSeqIdle
    /\ stagers \in [Stagers -> {[pc |-> "Downloading", url |-> u, path |-> None] :
                                  u \in StagerUrls}]
    /\ stage_dir = [n \in TmpNames |-> NoFile]
    /\ last_touch = NoTouch

\* update(), lines 26-28
StagerDownload(p) ==
    /\ stagers[p].pc = "Downloading"
    /\ \E resp \in ZipResponses(stagers[p].url), io \in FetchIo :
          LET r == fetch_update_zip(stagers[p].url, resp, io, stage_dir) IN
          /\ stage_dir' = r.temp
          /\ stagers' = [stagers EXCEPT ![p].path = r.path,
                                        ![p].pc = after_download(r.path)]
          /\ last_touch' = IF creates_file(stagers[p].url, resp, io)
                           THEN [by |-> p, name |-> file_name_of(stagers[p].url)]
                           ELSE last_touch
    /\ UNCHANGED <<updateVars, resolveVars, cacheRaceVars, fetchVars, cacheSeqVars>>

\* update(), line 30: apply_update opens and reads the staged file (line 124)
StagerApply(p) ==
    /\ stagers[p].pc = "Applying"
    /\ stagers' = [stagers EXCEPT ![p].pc =
                      IF open_zip(stage_dir[stagers[p].path.v]).some
                      THEN "CleaningUp" ELSE "aborted"]
    /\ UNCHANGED <<stage_dir, last_touch>>
    /\ UNCHANGED <<updateVars, resolveVars, cacheRaceVars, fetchVars, cacheSeqVars>>

\* update(), line 31: remove_file(zip_path).unwrap()
StagerCleanUp(p) ==
    /\ stagers[p].pc = "CleaningUp"
    /\ IF stage_dir[stagers[p].path.v] = NoFile
       THEN /\ stagers' = [stagers EXCEPT ![p].pc = "aborted"]
            /\ UNCHANGED <<stage_dir, last_touch>>
       ELSE /\ stagers' = [stagers EXCEPT ![p].pc = "done"]
            /\ stage_dir' = [stage_dir EXCEPT ![stagers[p].path.v] = NoFile]
            /\ last_touch' = [by |-> p, name |-> stagers[p].path.v]
    /\ UNCHANGED <<updateVars, resolveVars, cacheRaceVars, fetchVars, cacheSeqVars>>

StageRaceNext ==
    \/ \E p \in Stagers : StagerDownload(p)
    \/ \E p \in Stagers : StagerApply(p)
    \/ \E p \in Stagers : StagerCleanUp(p)

StageRaceSpec == InitStageRace /\ [][StageRaceNext]_vars

\* run p has staged its archive and not yet deleted it
HoldsStaged(p) == stagers[p].pc \in {"Applying", "CleaningUp"}

(***************************************************************************)
(* C17                                                                     *)
(***************************************************************************)
\* C17: while a run is between fetch_update_zip and the deletion of its
\* staged file, the last creation, truncation or deletion of that file path
\* is its own: no other run has touched the path since.
C17_StagedFileExclusive ==
    \A p \in DOMAIN stagers :
        (HoldsStaged(p) /\ last_touch.name = stagers[p].path.v) => last_touch.by = p

(***************************************************************************)
(* Queries to get_download_url_from_json (lines 71-86) on literal          *)
(* documents, as in the tests of lines 545-915                             *)
(***************************************************************************)
\* "serverbedrockwindows"
LowerCaseWindows ==
    <<"s","e","r","v","e","r","b","e","d","r","o","c","k","w","i","n","d","o","w","s">>

LinkNoUrl == JObj([k \in {"downloadType"} |-> JStr(to_string("Windows"))])
LinkNumUrl ==
    JObj([k \in {"downloadType", "downloadUrl"} |->
            IF k = "downloadType" THEN JStr(to_string("Windows")) ELSE JNum(123)])
LinkNoType == JObj([k \in {"downloadUrl"} |-> JStr(UrlW1)])
LinkLowerCase ==
    JObj([k \in {"downloadType", "downloadUrl"} |->
            IF k = "downloadType" THEN JStr(LowerCaseWindows) ELSE JStr(UrlW1)])

LinkItems ==
    {Link("Windows", UrlW1), Link("Windows", UrlW2), Link("Linux", UrlL1),
     LinkNoUrl, LinkNumUrl, LinkNoType, LinkLowerCase, JNum(1)}

RECURSIVE SeqsUpTo(_, _)
SeqsUpTo(S, n) ==
    IF n = 0 THEN {<<>>}
    ELSE SeqsUpTo(S, n - 1) \cup
         {Append(q, x) : q \in {r \in SeqsUpTo(S, n - 1) : Len(r) = n - 1}, x \in S}

DocNoResult == JObj([k \in {"other"} |-> JStr(UrlW1)])
DocResultNotObject == JObj([k \in {"result"} |-> JStr(UrlW1)])
DocNoLinks == JObj([k \in {"result"} |-> JObj([j \in {"other"} |-> JArr(<<>>)])])
DocLinksString == JObj([k \in {"result"} |-> JObj([j \in {"links"} |-> JStr(UrlW1)])])
DocLinksObject ==
    JObj([k \in {"result"} |->
            JObj([j \in {"links"} |-> JObj([i \in {"primary"} |-> Link("Windows", UrlW1)])])])

MalformedDocs ==
    {JNull, JArr(<<Link("Windows", UrlW1)>>), DocNoResult, DocResultNotObject, DocNoLinks,
     DocLinksString, DocLinksObject}

\* two links typed for any two identities, as in the tests of lines 545-678
IdentityDocs == {Manifest(<<Link(a, UrlW1), Link(b, UrlW2)>>) : a, b \in DownloadType}

ResolveDocs ==
    MalformedDocs \cup IdentityDocs
                  \cup {Manifest(links) : links \in SeqsUpTo(LinkItems, MaxLinks)}

InitResolve ==
    /\ InitUpdate /\ CacheRaceIdle /\ StageRaceIdle /\ FetchIdle /\ CacheSeqIdle
    /\ tree = BaseTree
    /\ q_json \in ResolveDocs
    /\ q_type \in DownloadType
    /\ q_result = None

\* one call of get_download_url_from_json
Resolve ==
    /\ ~q_result.some
    /\ q_result' = Some(get_download_url_from_json(q_json, q_type))
    /\ UNCHANGED <<q_json, q_type, updateVars, cacheRaceVars, stageRaceVars, fetchVars, cacheSeqVars>>

ResolveSpec == InitResolve /\ [][Resolve]_vars

\* the query's document has a result.links array
HasLinks ==
    /\ q_json.t = "obj" /\ "result" \in DOMAIN q_json.o
    /\ q_json.o["result"].t = "obj" /\ "links" \in DOMAIN q_json.o["result"].o
    /\ q_json.o["result"].o["links"].t = "arr"

QLinks == q_json.o["result"].o["links"].a

TypeMatches(item) ==
    /\ item.t = "obj"
    /\ "downloadType" \in DOMAIN item.o
    /\ item.o["downloadType"] = JStr(to_string(q_type))

HasStringUrl(item) ==
    /\ item.t = "obj"
    /\ "downloadUrl" \in DOMAIN item.o
    /\ item.o["downloadUrl"].t = "str"

\* index of the first link whose downloadType is the identity's rendering, 0 if none
FirstTypeMatch ==
    IF \E i \in 1..Len(QLinks) : TypeMatches(QLinks[i])
    THEN CHOOSE i \in 1..Len(QLinks) :
            TypeMatches(QLinks[i]) /\ \A j \in 1..(i - 1) : ~TypeMatches(QLinks[j])
    ELSE 0

(***************************************************************************)
(* C18                                                                     *)
(***************************************************************************)
\* C18: when the first link in document order whose downloadType equals the
\* identity's rendering carries a string downloadUrl, the result is that
\* URL, also when later links carry the same downloadType.
C18_FirstMatchWins ==
    (q_result.some /\ HasLinks /\ FirstTypeMatch # 0
       /\ HasStringUrl(QLinks[FirstTypeMatch]))
    => q_result.v = Some(QLinks[FirstTypeMatch].o["downloadUrl"].s)

C18_Witness ==
    /\ q_result = Some(Some(UrlW1))
    /\ q_type = "Windows"
    /\ q_json = Manifest(<<Link("Windows", UrlW1), Link("Windows", UrlW2)>>)

(***************************************************************************)
(* C19                                                                     *)
(***************************************************************************)
\* C19: when the first link whose downloadType equals the identity's
\* rendering has no downloadUrl or one that is not a string, the result is
\* empty, whatever links follow it.
C19_BadUrlGivesEmpty ==
    (q_result.some /\ HasLinks /\ FirstTypeMatch # 0
       /\ ~HasStringUrl(QLinks[FirstTypeMatch]))
    => q_result.v = None

(***************************************************************************)
(* C20                                                                     *)
(***************************************************************************)
\* C20: for the null manifest, a document without result, without
\* result.links, or whose links is not a sequence, the resolver returns
\* empty for every identity.
C20_TotalOnMalformed ==
    (q_result.some /\ ~HasLinks) => q_result.v = None

C20_Witness ==
    /\ q_result = Some(None)
    /\ q_json = DocLinksObject
    /\ q_type = "Windows"

(***************************************************************************)
(* C21                                                                     *)
(***************************************************************************)
\* C21: a link matches an identity only when its downloadType is exactly,
\* case-sensitively, the identity's rendering; when no link of the document
\* has such a downloadType (none at all, or one in another case) the result
\* is empty.
C21_ExactCaseMatch ==
    (q_result.some /\ HasLinks /\ \A i \in 1..Len(QLinks) : ~TypeMatches(QLinks[i]))
    => q_result.v = None

C21_Witness ==
    /\ q_result = Some(None)
    /\ q_type = "Windows"
    /\ q_json = Manifest(<<LinkLowerCase, LinkNoType>>)

(***************************************************************************)
(* C22                                                                     *)
(***************************************************************************)
\* the five tokens of the Display implementation
Rendering ==
    [dt \in DownloadType |->
        CASE dt = "Windows" ->
               <<"s","e","r","v","e","r","B","e","d","r","o","c","k","W","i","n","d","o","w","s">>
          [] dt = "Linux" ->
               <<"s","e","r","v","e","r","B","e","d","r","o","c","k","L","i","n","u","x">>
          [] dt = "PreviewWindows" ->
               <<"s","e","r","v","e","r","B","e","d","r","o","c","k","P","r","e","v","i","e","w","W","i","n","d","o","w","s">>
          [] dt = "PreviewLinux" ->
               <<"s","e","r","v","e","r","B","e","d","r","o","c","k","P","r","e","v","i","e","w","L","i","n","u","x">>
          [] dt = "ServerJar" ->
               <<"s","e","r","v","e","r","J","a","r">>]

\* the link is typed for the identity dt
TypedFor(item, dt) ==
    /\ item.t = "obj"
    /\ "downloadType" \in DOMAIN item.o
    /\ item.o["downloadType"] = JStr(Rendering[dt])

\* C22: the rendering is the fixed table Windows -> serverBedrockWindows,
\* Linux -> serverBedrockLinux, PreviewWindows -> serverBedrockPreviewWindows,
\* PreviewLinux -> serverBedrockPreviewLinux, ServerJar -> serverJar; the
\* five tokens are pairwise distinct, and a URL the resolver returns for an
\* identity is the URL of a link typed for that identity, never only of a
\* link typed for another one.
C22_FixedDistinctRendering ==
    /\ \A dt \in DownloadType : to_string(dt) = Rendering[dt]
    /\ \A a, b \in DownloadType : a # b => to_string(a) # to_string(b)
    /\ (q_result.some /\ q_result.v.some)
       => /\ HasLinks
          /\ \E i \in 1..Len(QLinks) :
                /\ TypedFor(QLinks[i], q_type)
                /\ HasStringUrl(QLinks[i])
                /\ QLinks[i].o["downloadUrl"].s = q_result.v.v

C22_Witness ==
    /\ q_result = Some(Some(UrlW2))
    /\ q_type = "PreviewLinux"
    /\ q_json = Manifest(<<Link("Linux", UrlW1), Link("PreviewLinux", UrlW2)>>)

(***************************************************************************)
(* Calls of fetch_update_zip (lines 88-118) on literal URLs and responses, *)
(* as in the tests of lines 918-1164                                       *)
(***************************************************************************)
UrlTrailingSlash == <<"x","/","d","/">>                  \* "x/d/"
UrlNoSlash == <<"w","1",".","z","i","p">>                        \* "w1.zip"
UrlDotDot == <<"x","/",".",".">>                         \* "x/.."
UrlDownload == <<"x","/","d","o","w","n","l","o","a","d">>                       \* "x/download"

FetchUrls == {UrlW1, UrlTrailingSlash, UrlNoSlash, UrlDotDot, UrlDownload}

FetchBodies == {ZipBody(Archive1), Garbage, EmptyBody}

FetchResponses ==
    {ConnErr} \cup {Resp(200, b) : b \in FetchBodies}
              \cup {Resp(299, EmptyBody), Resp(300, Garbage), Resp(404, Garbage),
                    Resp(500, ZipBody(Archive1))}

FetchNames == {file_name_of(u) : u \in FetchUrls} \cup {split(u, <<>>)[1] : u \in FetchUrls}
                                                   \cup {DefaultFileName}

\* the temp directory before the call: empty, or holding an older download
\* under one of the names
FetchTemps ==
    {[n \in FetchNames |-> NoFile]} \cup
    {[n \in FetchNames |-> IF n = m THEN ZipBody(Archive2) ELSE NoFile] : m \in FetchNames}

InitFetch ==
    /\ InitUpdate /\ ResolveIdle /\ CacheRaceIdle /\ StageRaceIdle /\ CacheSeqIdle
    /\ tree = BaseTree
    /\ \E u \in FetchUrls, resp \in FetchResponses, io \in FetchIo, tmp \in FetchTemps :
          f_in = [url |-> u, resp |-> resp, io |-> io, temp |-> tmp]
    /\ f_out = None

\* one call of fetch_update_zip
Fetch ==
    /\ ~f_out.some
    /\ f_out' = Some(fetch_update_zip(f_in.url, f_in.resp, f_in.io, f_in.temp))
    /\ UNCHANGED <<f_in, updateVars, resolveVars, cacheRaceVars, stageRaceVars, cacheSeqVars>>

FetchSpec == InitFetch /\ [][Fetch]_vars

\* the text after the final '/' of the URL, the whole URL when it has none
LastSegment(url) ==
    LET slashes == {i \in 1..Len(url) : url[i] = "/"}
        k == IF slashes = {} THEN 0
             ELSE CHOOSE i \in slashes : \A j \in slashes : j <= i IN
    SubSeq(url, k + 1, Len(url))

(***************************************************************************)
(* C23                                                                     *)
(***************************************************************************)
\* C23: when the connection fails or the status of the response is outside
\* 200..299, fetch_update_zip returns empty and the temp directory is as it
\* was before the call: no staged file was created or modified.
C23_FailedStatusTouchesNothing ==
    (f_out.some /\ (f_in.resp.err \/ f_in.resp.status < 200 \/ f_in.resp.status > 299))
    => /\ f_out.v.path = None
       /\ f_out.v.temp = f_in.temp

C23_Witness ==
    /\ f_out.some
    /\ f_in.resp = Resp(500, ZipBody(Archive1))
    /\ f_in.url = UrlW1
    /\ f_in.io = "ok"
    /\ f_in.temp[file_name_of(UrlW1)] = ZipBody(Archive2)
    /\ f_out.v.temp[file_name_of(UrlW1)] = ZipBody(Archive2)

(***************************************************************************)
(* C24                                                                     *)
(***************************************************************************)
\* C24: the staged file is named after the text following the final '/' of
\* the URL, and after the default name update.zip when that text is empty
\* (a URL ending in '/').
C24_DefaultNameFallback ==
    /\ (f_out.some /\ f_out.v.path.some)
       => f_out.v.path.v = IF LastSegment(f_in.url) = <<>> THEN DefaultFileName
                           ELSE LastSegment(f_in.url)
    /\ (f_out.some /\ ~f_in.resp.err /\ f_in.resp.status = 200 /\ f_in.io = "ok"
          /\ LastSegment(f_in.url) = <<>>)
       => f_out.v.path = Some(DefaultFileName)

(***************************************************************************)
(* C25                                                                     *)
(***************************************************************************)
\* C25: when fetch_update_zip returns a path, the path is a direct child of
\* the temp directory named by the last '/'-separated segment of the URL,
\* that file holds exactly the response body (also an empty one), and the
\* other files of the temp directory are as before.
C25_StagedFileIsBody ==
    (f_out.some /\ f_out.v.path.some)
    => LET name == f_out.v.path.v IN
       /\ name = LastSegment(f_in.url)
       /\ name \notin {<<>>, <<".">>, <<".", ".">>}
       /\ \A i \in 1..Len(name) : name[i] # "/"
       /\ f_out.v.temp[name] = f_in.resp.body
       /\ \A n \in DOMAIN f_in.temp : n # name => f_out.v.temp[n] = f_in.temp[n]

C25_Witness ==
    /\ f_out.some
    /\ f_out.v.path = Some(file_name_of(UrlDownload))
    /\ f_in.resp = Resp(200, EmptyBody)
    /\ f_in.temp[file_name_of(UrlDownload)] = ZipBody(Archive2)
    /\ f_out.v.temp[file_name_of(UrlDownload)] = EmptyBody

(***************************************************************************)
(* C26                                                                     *)
(***************************************************************************)
\* C26: fetching the remote manifest never aborts the run: when the
\* transport fails or the body is not valid JSON, the manifest is null and
\* the run ends there, without having read the cache, downloaded or changed
\* anything.
C26_FetchFailureEndsRun ==
    (web_resp # NoWebResp /\ (web_resp.err \/ web_resp.body.k # "json"))
    => /\ web_json = JNull
       /\ pc = "done"
       /\ outcome = "remote_absent"
       /\ did = NothingDone
       /\ web_download_url = <<>> /\ cache_download_url = <<>>
       /\ tree = start.tree
       /\ cache = start.cache
       /\ temp = start.temp

C26_Witness ==
    /\ pc = "done"
    /\ web_resp = Resp(200, Garbage)
    /\ start.cache # NoFile

(***************************************************************************)
(* C27                                                                     *)
(***************************************************************************)
\* C27: when the manifest endpoint answers with a server-error status, the
\* fetched manifest is null whatever the body is.
C27_ServerErrorGivesNull ==
    (web_resp # NoWebResp /\ ~web_resp.err /\ web_resp.status >= 500)
    => web_json = JNull

(***************************************************************************)
(* One run of update() over a cache file in any condition                  *)
(***************************************************************************)
\* what a run can find at args.cache_path
CacheFiles ==
    {NoFile, Unreadable, EmptyBody, Garbage, Truncated(ManifestA), JsonBody(ManifestA)}

InitAnyCache ==
    /\ InitUpdateFrom(CacheFiles)
    /\ ResolveIdle /\ CacheRaceIdle /\ StageRaceIdle /\ FetchIdle /\ CacheSeqIdle

AnyCacheSpec == InitAnyCache /\ [][LiveNext]_vars

(***************************************************************************)
(* C28                                                                     *)
(***************************************************************************)
\* C28: when the cache file does not exist, cannot be opened, is empty, or
\* holds cut-short or otherwise unparsable content, get_json_from_cache
\* returns the null manifest and the run goes on as with no prior version:
\* the cached token is "0.0.0", so the run updates unless the remote URL is
\* that very token and force is off.
C28_UnusableCacheIsNoVersion ==
    (pc \in {"ComparingVersions", "Downloading", "Applying", "CleaningUp", "WritingCache"}
        \/ (Ended /\ outcome \notin {"remote_absent", "panic_no_link"}))
    /\ start.cache.k # "json"
    => /\ cache_json = JNull
       /\ cache_download_url = DefaultToken
       /\ outcome = "up_to_date" <=>
             (pc = "done" /\ ~args.force /\ web_download_url = DefaultToken)

C28_Witness ==
    /\ start.cache = Truncated(ManifestA)
    /\ web_json = ManifestA
    /\ args.download_type = "Windows"
    /\ ~args.force
    /\ pc = "done"
    /\ outcome = "applied"

(***************************************************************************)
(* Successive update_cache calls (lines 157-165) and get_json_from_cache   *)
(* (lines 56-69) on one cache path, the file taken token by token          *)
(***************************************************************************)
IsPunct(tok, c) == tok.tok = "punct" /\ tok.c = c

ParseError == [ok |-> FALSE]
Parsed(v, next) == [ok |-> TRUE, v |-> v, next |-> next]

RECURSIVE parse_value(_, _)
RECURSIVE parse_elements(_, _, _)
RECURSIVE parse_members(_, _, _)

\* the elements of an array from position i on, acc holding those read so far
parse_elements(b, i, acc) ==
    LET r == parse_value(b, i) IN
    IF ~r.ok THEN ParseError
    ELSE IF r.next > Len(b) THEN ParseError
    ELSE IF IsPunct(b[r.next], ",") THEN parse_elements(b, r.next + 1, Append(acc, r.v))
    ELSE IF IsPunct(b[r.next], "]") THEN Parsed(JArr(Append(acc, r.v)), r.next + 1)
    ELSE ParseError

\* the members of an object from position i on, o holding those read so far
parse_members(b, i, o) ==
    IF i + 2 > Len(b) THEN ParseError
    ELSE IF b[i].tok # "key" \/ ~IsPunct(b[i + 1], ":") THEN ParseError
    ELSE LET r == parse_value(b, i + 2)
             key == b[i].key IN
         IF ~r.ok THEN ParseError
         ELSE IF r.next > Len(b) THEN ParseError
         ELSE LET o2 == [k \in DOMAIN o \cup {key} |-> IF k = key THEN r.v ELSE o[k]] IN
              IF IsPunct(b[r.next], ",") THEN parse_members(b, r.next + 1, o2)
              ELSE IF IsPunct(b[r.next], "}") THEN Parsed(JObj(o2), r.next + 1)
              ELSE ParseError

\* serde_json's Deserializer: one value starting at position i
parse_value(b, i) ==
    IF i > Len(b) THEN ParseError
    ELSE IF b[i].tok = "null" THEN Parsed(JNull, i + 1)
    ELSE IF b[i].tok = "str" THEN Parsed(JStr(b[i].s), i + 1)
    ELSE IF b[i].tok = "num" THEN Parsed(JNum(b[i].n), i + 1)
    ELSE IF IsPunct(b[i], "[")
    THEN IF i + 1 <= Len(b) /\ IsPunct(b[i + 1], "]")
         THEN Parsed(JArr(<<>>), i + 2)
         ELSE parse_elements(b, i + 1, <<>>)
    ELSE IF IsPunct(b[i], "{")
    THEN IF i + 1 <= Len(b) /\ IsPunct(b[i + 1], "}")
         THEN Parsed(JObj(<<>>), i + 2)
         ELSE parse_members(b, i + 1, <<>>)
    ELSE ParseError

\* serde_json::from_reader: one value and nothing after it
from_reader(b) ==
    LET r == parse_value(b, 1) IN
    IF r.ok /\ r.next = Len(b) + 1 THEN Some(r.v) ELSE None

\* OpenOptions::new().write(true).create(true): the old bytes stay
create_without_truncate(bytes) == bytes

\* File::create: the file is created or truncated
create(bytes) == <<>>

\* the writes of to_writer, one after the other from position pos on
RECURSIVE write_all(_, _, _)
write_all(bytes, pos, toks) ==
    IF toks = <<>> THEN bytes
    ELSE write_all(write_at(bytes, pos, Head(toks)), pos + 1, Tail(toks))

\* update_cache that returns Ok: the file after the call
update_cache_bytes(web_json_, bytes) == write_all(create(bytes), 0, to_writer(web_json_))

\* get_json_from_cache on the file of the cache path
get_json_from_cache_bytes(fs, bytes) ==
    IF ~fs.exists THEN JNull
    ELSE IF from_reader(bytes).some THEN from_reader(bytes).v
    ELSE JNull

\* the manifests handed to update_cache
WriteDocs ==
    RemoteDocs \cup {Manifest(<<>>), Manifest(<<Link("Linux", UrlL1)>>),
                     JObj([k \in {"thread_id"} |-> JNum(1)])}

\* the cache file before the first call: empty, an older and longer
\* manifest, a cut-short one, or text that is no JSON
OldContents ==
    {<<>>,
     to_writer(Manifest(<<Link("Windows", UrlW2), Link("Linux", UrlL1), Link("ServerJar", UrlW1)>>)),
     SubSeq(to_writer(ManifestA), 1, 5),
     <<StrTok(UrlW1), StrTok(UrlW2)>>}

InitCacheSeq ==
    /\ InitUpdate /\ ResolveIdle /\ StageRaceIdle /\ FetchIdle
    /\ tree = BaseTree
    /\ writers = <<>>
    /\ c_fs \in {[dir |-> FALSE, exists |-> FALSE], [dir |-> TRUE, exists |-> FALSE],
                 [dir |-> TRUE, exists |-> TRUE]}
    /\ cache_bytes \in (IF c_fs.exists THEN OldContents ELSE {<<>>})
    /\ c_written = <<>>
    /\ c_read = None

\* update_cache(doc, path) returning Ok(())
CacheWrite ==
    /\ Len(c_written) < MaxWrites
    /\ \E doc \in WriteDocs :
          /\ cache_bytes' = update_cache_bytes(doc, cache_bytes)
          /\ c_written' = Append(c_written, doc)
    /\ c_fs' = [dir |-> TRUE, exists |-> TRUE]
    /\ c_read' = None
    /\ UNCHANGED <<writers, updateVars, resolveVars, stageRaceVars, fetchVars>>

\* get_json_from_cache(path)
CacheRead ==
    /\ ~c_read.some
    /\ c_read' = Some(get_json_from_cache_bytes(c_fs, cache_bytes))
    /\ UNCHANGED <<cache_bytes, writers, c_fs, c_written, updateVars, resolveVars,
                   stageRaceVars, fetchVars>>

CacheSeqNext == CacheWrite \/ CacheRead

CacheSeqSpec == InitCacheSeq /\ [][CacheSeqNext]_vars

(***************************************************************************)
(* C29                                                                     *)
(***************************************************************************)
\* C29: after any sequence of successful update_cache calls on one path,
\* whatever the path held before and whether or not its directory existed,
\* get_json_from_cache returns exactly the manifest of the last call, and
\* the file holds that manifest's serialization and nothing else.
C29_LastWriteWins ==
    (c_written # <<>>)
    => /\ c_fs.dir /\ c_fs.exists
       /\ cache_bytes = to_writer(c_written[Len(c_written)])
       /\ c_read.some => c_read.v = c_written[Len(c_written)]

C29_Witness ==
    /\ Len(c_written) = 2
    /\ c_written[1] = ManifestA
    /\ c_written[2] = Manifest(<<>>)
    /\ c_read = Some(Manifest(<<>>))

(***************************************************************************)
(* apply_update (lines 120-155) called again with the same archive, the    *)
(* same exclusions and the tree the previous call left                     *)
(***************************************************************************)
ApplyUrls == {UrlW1, UrlW2, UrlL1, UrlD1}

\* update() at line 30, about to call apply_update on the staged archive
InitApply(trees, excludes, web, caches) ==
    /\ ResolveIdle /\ CacheRaceIdle /\ StageRaceIdle /\ FetchIdle /\ CacheSeqIdle
    /\ pc = "Applying"
    /\ runs = 1
    /\ \E ex \in excludes :
          args = [download_type |-> "Windows", force |-> TRUE, exclude |-> ex]
    /\ web_json = web
    /\ cache_json = JNull
    /\ web_download_url \in ApplyUrls
    /\ cache_download_url = DefaultToken
    /\ zip_path = Some(file_name_of(web_download_url))
    /\ archive = <<>>
    /\ idx = 0
    /\ tree \in trees
    /\ cache \in caches
    /\ temp = [n \in TmpNames |->
                 IF n = file_name_of(web_download_url)
                 THEN ZipBody(ArchiveAt(web_download_url)) ELSE NoFile]
    /\ outcome = "none"
    /\ did = [fetch |-> Some(web_download_url), apply |-> "none", cache |-> "none"]
    /\ start = [tree |-> tree, cache |-> cache, temp |-> temp]
    /\ applied_urls = {}
    /\ lastOp = NoOp
    /\ prev = NoPrev
    /\ web_resp = NoWebResp

InitApplyTwice == InitApply(InitTrees, ExcludeChoices, JNull, {NoFile})

\* the next call of apply_update, on the staged archive and the tree as the
\* completed call left them
ApplyAgain ==
    /\ pc = "CleaningUp"
    /\ runs < MaxApplies
    /\ runs' = runs + 1
    /\ pc' = "Applying"
    /\ archive' = <<>>
    /\ idx' = 0
    /\ start' = [tree |-> tree, cache |-> cache, temp |-> temp]
    /\ did' = [did EXCEPT !.apply = "none"]
    /\ lastOp' = NoOp
    /\ UNCHANGED <<args, web_json, cache_json, web_download_url, cache_download_url,
                   zip_path, tree, cache, temp, outcome, applied_urls, prev, web_resp>>
    /\ UNCHANGED otherVars

ApplyTwiceNext == ApplyOpen \/ ApplyEntry \/ ApplyAgain

ApplyTwiceSpec == InitApplyTwice /\ [][ApplyTwiceNext]_vars

(***************************************************************************)
(* C30                                                                     *)
(***************************************************************************)
\* C30: apply_update is idempotent: when a call with the same archive and
\* the same exclusions has completed on the tree before, a further
\* completed call leaves the tree exactly as it found it.
C30_ApplyIdempotent ==
    (runs >= 2 /\ pc = "CleaningUp" /\ did.apply = "completed") => tree = start.tree

\* the excluded path did not exist before the first call (it holds the
\* archive's bytes, so the first call wrote it), the second call skipped it
C30_Witness ==
    /\ runs = 2
    /\ pc = "CleaningUp"
    /\ did.apply = "completed"
    /\ args.exclude = DefaultExclude
    /\ archive = Archive1
    /\ tree[<<"srv", "server.properties">>] = File("p1")
    /\ tree = start.tree

(***************************************************************************)
(* C31                                                                     *)
(***************************************************************************)
\* the place of an orchestrator state in the order of update()
Rank(state) ==
    CASE state = "idle" -> 0
      [] state = "FetchingRemote" -> 1
      [] state = "ResolvingVersions" -> 2
      [] state = "ComparingVersions" -> 3
      [] state = "Downloading" -> 4
      [] state = "Applying" -> 5
      [] state = "CleaningUp" -> 6
      [] state = "WritingCache" -> 7
      [] state \in {"done", "aborted"} -> 8

\* C31: within a run every step moves forward in the order FetchingRemote,
\* ResolvingVersions, ComparingVersions, Downloading, Applying, CleaningUp,
\* WritingCache, END; no state is entered again (inside Applying the loop
\* index moves forward), an ended run takes no further step, and the cache
\* is written only once the apply has completed and the staged file has
\* been deleted.
C31_FixedOrder ==
    /\ [][runs' = runs =>
            /\ ~Ended
            /\ \/ Rank(pc') > Rank(pc)
               \/ pc = "Applying" /\ pc' = "Applying" /\ idx' > idx]_vars
    /\ [](pc = "WritingCache" =>
            did.apply = "completed" /\ temp[zip_path.v] = NoFile /\ cache = start.cache)
    /\ [](pc = "CleaningUp" => did.apply = "completed" /\ did.cache = "none")

C31_Witness ==
    /\ pc = "done"
    /\ outcome = "applied"
    /\ did.cache = "ok"
    /\ temp[zip_path.v] = NoFile

(***************************************************************************)
(* C32                                                                     *)
(***************************************************************************)
\* C32: when the remote manifest is present but yields no URL for the
\* requested identity, the run ends in a fatal abort right after resolving:
\* nothing was downloaded, applied or cached, and the target tree, the cache
\* file and the temp directory are as the run found them.
C32_NoLinkAborts ==
    (runs > 0 /\ ~is_null(web_json) /\ ~RemoteUrl.some /\ pc # "ResolvingVersions")
    => /\ pc = "aborted"
       /\ outcome = "panic_no_link"
       /\ did = NothingDone
       /\ tree = start.tree
       /\ cache = start.cache
       /\ temp = start.temp

C32_Witness ==
    /\ pc = "aborted"
    /\ outcome = "panic_no_link"
    /\ web_json = ManifestC
    /\ args.download_type = "Linux"
    /\ start.cache = JsonBody(ManifestA)

(***************************************************************************)
(* One run from the call of apply_update to its end, over every archive,   *)
(* trees of both platforms and exclusion sets that name a directory        *)
(***************************************************************************)
\* a Linux installation: bin is a directory, and a file of an older version
\* that no archive names
LinuxTree ==
    [BaseTree EXCEPT ![<<"srv", "bin">>] = Dir,
                     ![<<"srv", "bin", "srv">>] = File("l0"),
                     ![<<"srv", "server.properties">>] = File("user")]

InitApplyRun ==
    InitApply(InitTrees \cup {LinuxTree}, ExcludeChoices \cup {{<<"bin">>}},
              ManifestB, {NoFile, JsonBody(ManifestA)})

ApplyRunNext == ApplyOpen \/ ApplyEntry \/ CleanUp \/ WriteCache

ApplyRunSpec == InitApplyRun /\ [][ApplyRunNext]_vars

\* the destination of the archive's entry j
Dest(j) == join(ServerPath, archive[j].name)

\* the entry's name is a relative path that stays inside the target
IsSafe(j) ==
    /\ archive[j].name # <<>>
    /\ Head(archive[j].name) # "/"
    /\ ".." \notin SeqRange(archive[j].name)

\* the file entries among the first k that write path p: those with a safe
\* name that the exclusion rule did not skip (the name is not in the
\* exclusion set, or nothing existed at the destination when the entry's
\* turn came: nothing at the start and no earlier entry led there)
WritersOf(p, k) ==
    {j \in 1..k :
        /\ ~archive[j].dir
        /\ IsSafe(j)
        /\ Dest(j) = p
        /\ \/ archive[j].name \notin args.exclude
           \/ /\ ~exists(start.tree, p)
              /\ \A i \in 1..(j - 1) : p \notin Prefixes(Dest(i)) \/ ~IsSafe(i)}

LastOf(S) == CHOOSE j \in S : \A i \in S : i <= j

(***************************************************************************)
(* C33                                                                     *)
(***************************************************************************)
\* C33 as stated: when apply_update fails on an entry, every non-skipped
\* file entry before it has its own bytes at its destination, the
\* destination of every later entry is as the run found it, and the cache
\* file is not modified.
C33_AsStated ==
    (pc = "aborted" /\ outcome = "panic_extract") =>
        /\ \A j \in 1..(idx - 1) :
              j \in WritersOf(Dest(j), idx - 1) => tree[Dest(j)] = File(archive[j].data)
        /\ \A j \in (idx + 1)..Len(archive) :
              IsSafe(j) => tree[Dest(j)] = start.tree[Dest(j)]
        /\ cache = start.cache

\* C33: when apply_update fails on an entry the run is over at once and
\* nothing is rolled back: every path written by a non-skipped file entry
\* before the failing one, other than the failing entry's own destination,
\* holds the bytes of the last such entry; every path that is not on the
\* way to the destination of an entry up to the failing one is as the run
\* found it; what existed at the failing entry's destination is not removed;
\* the staged archive is still in the temp directory and the cache file is
\* not modified.
C33_AbortNoRollback ==
    (pc = "aborted" /\ outcome = "panic_extract") =>
        /\ lastOp.entry = idx
        /\ did.apply = "started"
        /\ \A p \in Paths :
              (WritersOf(p, idx - 1) # {} /\ p # Dest(idx)) =>
                  tree[p] = File(archive[LastOf(WritersOf(p, idx - 1))].data)
        /\ \A p \in Paths :
              (\A j \in 1..idx : ~IsSafe(j) \/ p \notin Prefixes(Dest(j))) =>
                  tree[p] = start.tree[p]
        /\ lastOp.existed => exists(tree, Dest(idx))
        /\ temp = start.temp
        /\ cache = start.cache
        /\ did.cache = "none"

\* the write of the third entry failed after the first was written
C33_Witness ==
    /\ pc = "aborted"
    /\ outcome = "panic_extract"
    /\ archive = Archive1
    /\ idx = 3
    /\ start.tree = InstalledTree
    /\ args.exclude = {}
    /\ tree[<<"srv", "server.properties">>] = File("p1")
    /\ tree[<<"srv", "bin">>] = File("partial")
    /\ cache = JsonBody(ManifestA)

(***************************************************************************)
(* C34                                                                     *)
(***************************************************************************)
\* C34: apply_update only adds or overwrites: whatever existed in the tree
\* when the call began still exists and is of the same kind (nothing is
\* deleted, moved or renamed), and every file whose content differs from
\* what the call found is the destination of a file entry of the archive
\* that has a safe name and is not skipped by the exclusion rule; a file
\* that no such entry names keeps its content.
C34_OnlyAddsOrOverwrites ==
    \A p \in Paths :
        /\ exists(start.tree, p) => tree[p].k = start.tree[p].k
        /\ (tree[p].k = "file" /\ tree[p] # start.tree[p]) =>
              \E j \in 1..Len(archive) :
                  /\ ~archive[j].dir
                  /\ IsSafe(j)
                  /\ Dest(j) = p
                  /\ ~(archive[j].name \in args.exclude /\ exists(start.tree, p))

\* a file of the older version that the new archive does not name stays,
\* next to a file the archive replaced
C34_Witness ==
    /\ pc = "CleaningUp"
    /\ did.apply = "completed"
    /\ archive = Archive3
    /\ start.tree = LinuxTree
    /\ tree[<<"srv", "server.properties">>] = File("user")
    /\ tree[<<"srv", "bin", "srv">>] = File("l1")

(***************************************************************************)
(* C35                                                                     *)
(***************************************************************************)
\* C35: after a completed apply_update, every path named by a file entry
\* with a safe name that the exclusion rule did not skip holds exactly the
\* bytes of the last such entry in archive order, whatever it held before,
\* and every ancestor of it is a directory.
C35_AppliedContent ==
    (pc = "CleaningUp" /\ did.apply = "completed") =>
        \A p \in Paths :
            WritersOf(p, Len(archive)) # {} =>
                /\ tree[p] = File(archive[LastOf(WritersOf(p, Len(archive)))].data)
                /\ \A q \in Prefixes(parent(p)) : tree[q] = Dir

\* two entries for one path over an existing file, and a file in a
\* directory that did not exist
C35_Witness ==
    /\ pc = "CleaningUp"
    /\ did.apply = "completed"
    /\ archive = Archive4
    /\ args.exclude = {}
    /\ start.tree = InstalledTree
    /\ tree[<<"srv", "server.properties">>] = File("p2")
    /\ tree[<<"srv", "bin">>] = File("b2")
    /\ start.tree[<<"srv", "worlds">>] = Absent
    /\ tree[<<"srv", "worlds">>] = Dir
    /\ tree[<<"srv", "worlds", "level.dat">>] = File("w1")

(***************************************************************************)
(* C38                                                                     *)
(***************************************************************************)
\* C38: the exclusion set is matched against an entry's whole relative
\* path. The iteration of a directory entry whose path is excluded and
\* exists leaves the tree as it is, and a file entry beneath an excluded,
\* existing directory whose own path is not in the exclusion set is written
\* all the same: after a completed call its destination holds the archive's
\* bytes and the directory is still a directory.
C38_ExclusionWholePathOnly ==
    /\ [][(/\ pc = "Applying"
           /\ idx >= 1
           /\ idx <= Len(archive)
           /\ archive[idx].dir
           /\ archive[idx].name \in args.exclude
           /\ exists(tree, Dest(idx))) => tree' = tree]_vars
    /\ []((pc = "CleaningUp" /\ did.apply = "completed") =>
            \A j \in 1..Len(archive) :
                \A n \in 1..(Len(archive[j].name) - 1) :
                    LET d == SubSeq(archive[j].name, 1, n) IN
                    (/\ ~archive[j].dir
                     /\ IsSafe(j)
                     /\ archive[j].name \notin args.exclude
                     /\ d \in args.exclude
                     /\ start.tree[join(ServerPath, d)] = Dir)
                    => /\ tree[join(ServerPath, d)] = Dir
                       /\ tree[Dest(j)] =
                             File(archive[LastOf(WritersOf(Dest(j), Len(archive)))].data))

\* bin is excluded and exists as a directory; bin/srv is overwritten
C38_Witness ==
    /\ pc = "CleaningUp"
    /\ did.apply = "completed"
    /\ args.exclude = {<<"bin">>}
    /\ archive = Archive3
    /\ start.tree[<<"srv", "bin">>] = Dir
    /\ start.tree[<<"srv", "bin", "srv">>] = File("l0")
    /\ tree[<<"srv", "bin">>] = Dir
    /\ tree[<<"srv", "bin", "srv">>] = File("l1")

(***************************************************************************)
(* C39                                                                     *)
(***************************************************************************)
\* C39: at the end of a run that did not abort, the temp directory holds no
\* file that the run created or rewrote: every name whose file is not as
\* the run found it has no file.
C39_NoStagedFileLeft ==
    pc = "done" => \A n \in TmpNames : temp[n] # start.temp[n] => temp[n] = NoFile

(***************************************************************************)
(* Two runs in a row, with the history of the run before: how it ended,    *)
(* what it fetched and compared, whether apply_update failed in it         *)
(***************************************************************************)
MaxTrackedRuns == 2

StartTrackedRun ==
    StartRunWith(MaxTrackedRuns,
                 [failed |-> pc = "done" /\ did.apply = "completed" /\ did.cache = "err",
                  web_json |-> web_json,
                  download_type |-> args.download_type,
                  differed |-> web_download_url # cache_download_url,
                  ended |-> outcome,
                  cache_ok |-> did.cache = "ok",
                  apply_failed |-> lastOp.op = "panic" \/ outcome = "panic_archive",
                  cached |-> cache_download_url])

\* before the first run there is no cache file, or the cache of an earlier
\* installation
InitTwoRun ==
    /\ InitUpdateFrom({NoFile, JsonBody(ManifestA)})
    /\ ResolveIdle /\ CacheRaceIdle /\ StageRaceIdle /\ FetchIdle /\ CacheSeqIdle

TwoRunNext == StartTrackedRun \/ RunStep

TwoRunSpec == InitTwoRun /\ [][TwoRunNext]_vars

\* this run has the remote manifest and the identity of the run before, and
\* is not forced
SameAsRunBefore ==
    /\ runs >= 2
    /\ web_json = prev.web_json
    /\ args.download_type = prev.download_type
    /\ ~args.force

(***************************************************************************)
(* C36                                                                     *)
(***************************************************************************)
\* C36: after a run that applied the archive and wrote the cache, a run
\* with the same remote manifest and identity and without force ends as
\* already up to date: it downloads nothing, applies nothing and writes no
\* cache, and leaves the tree, the cache file and the temp directory alone.
C36_FixedPoint ==
    (/\ SameAsRunBefore
     /\ prev.ended = "applied"
     /\ prev.cache_ok
     /\ pc \notin {"ResolvingVersions", "ComparingVersions"})
    => /\ pc = "done"
       /\ outcome = "up_to_date"
       /\ did = NothingDone
       /\ tree = start.tree
       /\ cache = start.cache
       /\ temp = start.temp

C36_Witness ==
    /\ SameAsRunBefore
    /\ prev.ended = "applied"
    /\ prev.cache_ok
    /\ prev.differed
    /\ pc = "done"
    /\ outcome = "up_to_date"
    /\ web_download_url = UrlW1

(***************************************************************************)
(* C37                                                                     *)
(***************************************************************************)
\* C37: after a run whose remote token differed from the cached token and
\* in which apply_update failed, the cache resolves to the same old token
\* in the next run; with the same remote manifest and identity and without
\* force that run finds the tokens different again and goes on to the
\* download instead of ending as already up to date.
C37_RecoveryAfterAbort ==
    (/\ SameAsRunBefore
     /\ prev.apply_failed
     /\ prev.differed
     /\ pc \notin {"ResolvingVersions", "ComparingVersions"})
    => /\ prev.ended \in {"panic_extract", "panic_archive"}
       /\ cache_download_url = prev.cached
       /\ web_download_url # cache_download_url
       /\ outcome # "up_to_date"
       /\ pc = "Downloading" \/ did.fetch = Some(web_download_url)

\* the run before failed on an entry; this one applied the same archive
C37_Witness ==
    /\ SameAsRunBefore
    /\ prev.ended = "panic_extract"
    /\ prev.differed
    /\ prev.cached = UrlW1
    /\ web_download_url = UrlW2
    /\ pc = "done"
    /\ outcome = "applied"
    /\ did.cache = "ok"

====
